---- MODULE Spec2Model ----
(***************************************************************************)
(* Model of the motile napari plugin: the parameter-to-solver translation  *)
(* (motile_solver.py), the MotileWidget parameter controls and run buttons *)
(* (_motile_widget.py), and the SolverParamsEditor / RunEditor widgets     *)
(* (widgets/params_editor.py, widgets/run_editor.py).                      *)
(*                                                                         *)
(* Qt signals are direct connections: a slot runs synchronously inside the *)
(* emit, so one user gesture (an edit, a toggle, a button click) is one    *)
(* action that includes every slot it triggers.                            *)
(***************************************************************************)
EXTENDS Integers, Sequences, FiniteSets, TLC

\* ---------------------------------------------------------------- bounds
\* Largest numeric parameter value drawn for the solver parameters.
MaxCost == 1
\* Largest value drawn for max_children / max_parents.
MaxDegree == 2

\* Largest value typed into, or loaded into, a spinbox of the widgets.
MaxVal == 1
\* Most "Load Tracking Result" clicks that load a run.
MaxLoads == 1
\* Most solves started by "Generate Tracks".
MaxSolves == 2

\* Most runs RunEditor creates.
MaxRuns == 1

\* Python's None.  Every modelled numeric value is >= 0.
None == 0 - 1

IsNone(v) == v = None

\* ------------------------------------------------------- solver parameters
CostVals == 0..MaxCost
OptCostVals == CostVals \cup {None}
DegreeVals == 1..MaxDegree

\* The fields of SolverParams that solve / construct_solver read.
SolverParamsSet ==
    [ max_edge_distance : {1},
      max_children      : DegreeVals,
      max_parents       : DegreeVals,
      appear_cost       : OptCostVals,
      disappear_cost    : OptCostVals,
      division_cost     : OptCostVals,
      merge_cost        : OptCostVals,
      distance_weight   : OptCostVals,
      distance_offset   : OptCostVals,
      iou_weight        : OptCostVals,
      iou_offset        : OptCostVals ]

VARIABLES
    s_params,      \* the SolverParams handed to solve
    s_pc,          \* "start" before solve is called, "done" after it returned
    s_cand_iou,    \* the iou flag solve passed to get_candidate_graph
    s_solver       \* the motile Solver built by construct_solver

solverVars == <<s_params, s_pc, s_cand_iou, s_solver>>

\* MotileWidget (_motile_widget.py)
VARIABLES
    w_heap,          \* the live SolverParams objects: object id -> fields
    w_solver_params, \* self.solver_params: the id of the object it refers to
    w_next_id,       \* the id the next object loaded from disk gets
    w_spin,          \* spinbox value of each parameter row
    w_enabled,       \* isEnabled() of each spinbox
    w_checked,       \* isChecked() of each constant cost's EnableBox
    w_run_name,      \* text of the run_name line edit
    w_layer_text,    \* layer_selection_box.currentText()
    w_load_text,     \* load_tracks_selection.currentText()
    w_graph_layer,   \* self.graph_layer
    w_running_label, \* whether running_label is visible
    w_workers,       \* the started solve workers that have not returned
    w_started,       \* number of workers started so far
    w_layers,        \* the layers added to the viewer, in order
    w_loaded,        \* history: a run was loaded since construction
    w_last           \* history: the last user gesture handled

paramVars == <<w_heap, w_solver_params, w_next_id, w_spin, w_enabled,
               w_checked, w_loaded>>

runVars == <<w_running_label, w_workers, w_started, w_layers>>

widgetVars == <<paramVars, w_run_name, w_layer_text, w_load_text,
                w_graph_layer, runVars, w_last>>

\* SolverParamsEditor and RunEditor (widgets/)
VARIABLES
    e_heap,        \* SolverParams objects: e_heap[id] is the fields of object id
    e_value,       \* the value each row's param_value control holds
    e_enabled,     \* isEnabled() of each optional row's param_value
    e_checked,     \* isChecked() of each optional row's checkbox
    e_run_name,    \* text of RunEditor.run_name
    e_layer_text,  \* RunEditor.layer_selection_box.currentText()
    e_runs,        \* the MotileRuns emitted on create_run, in order
    e_last         \* history: the last operation handled, with its argument

editorVars == <<e_heap, e_value, e_enabled, e_checked, e_run_name,
                e_layer_text, e_runs, e_last>>

vars == <<solverVars, widgetVars, editorVars>>

\* A fresh motile Solver: no constraints, no costs.
NewSolver == [constraints |-> <<>>, costs |-> <<>>]

add_constraints(solver, c) ==
    [solver EXCEPT !.constraints = Append(@, c)]

add_costs(solver, c) ==
    [solver EXCEPT !.costs = Append(@, c)]

add_costs_if(cond, solver, c) ==
    IF cond THEN add_costs(solver, c) ELSE solver

\* Python truthiness: None and 0 are both false.
Truthy(v) == ~IsNone(v) /\ v # 0

\* construct_solver's constant costs with "if cost:" in place of
\* "if cost is not None:".
AddConstantCostsTruthy(solver, p) ==
    LET s1 == add_costs_if(Truthy(p.appear_cost), solver,
                  [kind |-> "Appear", constant |-> p.appear_cost])
        s2 == add_costs_if(Truthy(p.disappear_cost), s1,
                  [kind |-> "Disappear", constant |-> p.disappear_cost])
        s3 == add_costs_if(Truthy(p.division_cost), s2,
                  [kind |-> "Split", constant |-> p.division_cost])
    IN  add_costs_if(Truthy(p.merge_cost), s3,
                  [kind |-> "Merge", constant |-> p.merge_cost])

\* The constant cost terms of construct_solver, in source order.
AddConstantCosts(solver, p) ==
    LET s1 == add_costs_if(~IsNone(p.appear_cost), solver,
                  [kind |-> "Appear", constant |-> p.appear_cost])
        s2 == add_costs_if(~IsNone(p.disappear_cost), s1,
                  [kind |-> "Disappear", constant |-> p.disappear_cost])
        s3 == add_costs_if(~IsNone(p.division_cost), s2,
                  [kind |-> "Split", constant |-> p.division_cost])
    IN  add_costs_if(~IsNone(p.merge_cost), s3,
                  [kind |-> "Merge", constant |-> p.merge_cost])

\* construct_solver's edge costs guarded by the offset as well as the weight.
AddEdgeCostsNeedOffset(solver, p) ==
    LET s1 == add_costs_if(~IsNone(p.distance_weight) /\ ~IsNone(p.distance_offset),
                  solver,
                  [kind |-> "EdgeSelection", name |-> "distance",
                   weight |-> p.distance_weight, attribute |-> "distance",
                   constant |-> p.distance_offset])
    IN  add_costs_if(~IsNone(p.iou_weight) /\ ~IsNone(p.iou_offset), s1,
                  [kind |-> "EdgeSelection", name |-> "iou",
                   weight |-> p.iou_weight, attribute |-> "iou",
                   constant |-> p.iou_offset])

\* The EdgeSelection cost terms of construct_solver, in source order.
AddEdgeCosts(solver, p) ==
    LET s1 == add_costs_if(~IsNone(p.distance_weight), solver,
                  [kind |-> "EdgeSelection", name |-> "distance",
                   weight |-> p.distance_weight, attribute |-> "distance",
                   constant |-> p.distance_offset])
    IN  add_costs_if(~IsNone(p.iou_weight), s1,
                  [kind |-> "EdgeSelection", name |-> "iou",
                   weight |-> p.iou_weight, attribute |-> "iou",
                   constant |-> p.iou_offset])

construct_solver(p) ==
    LET s1 == add_constraints(NewSolver,
                  [kind |-> "MaxChildren", value |-> p.max_children])
        s2 == add_constraints(s1,
                  [kind |-> "MaxParents", value |-> p.max_parents])
    IN  AddEdgeCosts(AddConstantCosts(s2, p), p)

\* The iou argument solve passes to get_candidate_graph.
CandGraphIou(p) == ~IsNone(p.iou_weight)

SolverInit ==
    /\ s_params \in SolverParamsSet
    /\ s_pc = "start"
    /\ s_cand_iou = FALSE
    /\ s_solver = NewSolver

\* solve(solver_params, segmentation): builds the candidate graph, constructs
\* the solver and runs it.
Solve ==
    /\ s_pc = "start"
    /\ s_cand_iou' = CandGraphIou(s_params)
    /\ s_solver' = construct_solver(s_params)
    /\ s_pc' = "done"
    /\ UNCHANGED s_params


\* ------------------------------------------------------------ MotileWidget
\* The parameter rows modelled.  Every row of a category is built by the same
\* loop body (_ui_constant_costs, _ui_data_specific_hyperparameters), so two
\* constant costs and one data parameter stand for their categories.
ConstantCosts == {"appear_cost", "merge_cost"}
DataParams == {"max_children"}
WidgetParams == DataParams \cup ConstantCosts

\* The order in which the spinboxes were connected to load_btn.update_signal:
\* data parameters first, then constant costs (MotileWidget.__init__).
ConnectOrder == <<"max_children", "appear_cost", "merge_cost">>

WidgetVals == 0..MaxVal
OptWidgetVals == WidgetVals \cup {None}

\* The SolverParams objects Run.load can return: a constant cost may be None.
LoadedParamsSet ==
    [ max_children : WidgetVals,
      appear_cost  : OptWidgetVals,
      merge_cost   : OptWidgetVals ]

\* The SolverParams() of MotileWidget.__init__: every field a number, since each
\* default is given to QSpinBox.setValue.
DefaultParamsSet ==
    [ max_children : WidgetVals,
      appear_cost  : WidgetVals,
      merge_cost   : WidgetVals ]

\* The object self.solver_params names at construction; connect_to_param binds
\* every spinbox signal to this object's __setattr__.
BoundObj == 0

\* spinbox.setRange(min_val, max_val) with negative=False.
min_val == 0
max_val == 10000

\* QSpinBox.setValue keeps the value inside the range.
Clamp(v) == IF v < min_val THEN min_val ELSE IF v > max_val THEN max_val ELSE v

\* The controls together with the object they are bound to, as one value the
\* slots below transform: spin, enabled, checked, and bound (the fields of the
\* object BoundObj).
Controls == [spin |-> w_spin, enabled |-> w_enabled, checked |-> w_checked,
             bound |-> w_heap[BoundObj]]

\* partial(solver_params.__setattr__, param_name): the slot of valueChanged and
\* of enable_signal; with None, the slot of disable_signal.
SetBoundAttr(c, p, v) == [c EXCEPT !.bound[p] = v]

\* QSpinBox.setValue: valueChanged is emitted only when the value changes.
setValue(c, p, v) ==
    IF Clamp(v) = c.spin[p]
    THEN c
    ELSE SetBoundAttr([c EXCEPT !.spin[p] = Clamp(v)], p, Clamp(v))

\* BaseParamSpinBox.changeEvent without the enable_signal emission.
changeEventNoEnableSignal(c, p) ==
    IF c.enabled[p] THEN c ELSE SetBoundAttr(c, p, None)

\* BaseParamSpinBox.changeEvent on QEvent.EnabledChange.
changeEvent(c, p) ==
    IF c.enabled[p]
    THEN SetBoundAttr(c, p, c.spin[p])
    ELSE SetBoundAttr(c, p, None)

\* QWidget.setEnabled: the change event is sent only when the state changes.
setEnabled(c, p, b) ==
    IF c.enabled[p] = b THEN c ELSE changeEvent([c EXCEPT !.enabled[p] = b], p)

\* EnableBox._on_toggle, the slot of stateChanged.
on_toggle(c, p) == setEnabled(c, p, c.checked[p])

\* QCheckBox.setChecked: stateChanged is emitted only when the state changes.
setChecked(c, p, b) ==
    IF c.checked[p] = b THEN c ELSE on_toggle([c EXCEPT !.checked[p] = b], p)

\* EnableBox._disable, the slot of update_none_signal.  A data parameter's
\* spinbox has no EnableBox connected to its update_none_signal.
disable(c, p) ==
    IF p \in ConstantCosts THEN setChecked(c, p, FALSE) ELSE c

\* BaseParamSpinBox.update_value, the slot of load_btn.update_signal.
update_value(c, p, solver_params) ==
    IF IsNone(solver_params[p])
    THEN disable(c, p)
    ELSE setValue(c, p, solver_params[p])

\* LoadButton.emit_update_signal: every connected update_value, in order.
RECURSIVE UpdateFrom(_, _, _)
UpdateFrom(c, i, solver_params) ==
    IF i > Len(ConnectOrder)
    THEN c
    ELSE UpdateFrom(update_value(c, ConnectOrder[i], solver_params), i + 1,
                    solver_params)

emit_update_signal(c, solver_params) == UpdateFrom(c, 1, solver_params)

\* The objects still referred to: the bound object, self.solver_params and the
\* arguments of the running workers.  Others are reclaimed.
Live(sp, workers) ==
    {BoundObj, sp} \cup {workers[i].solver_params : i \in DOMAIN workers}

\* The names a run can have: the line edit's initial text and a saved run's.
RunNames == {"tracks", "run1"}

NoGesture == [op |-> "init", param |-> "none", value |-> None]

\* MotileWidget.__init__ with SolverParams() = d: each spinbox is given its
\* field's default before it is connected, each EnableBox is checked.
WidgetInitWith(d) ==
    /\ w_heap = (BoundObj :> d)
    /\ w_spin = d
    /\ w_solver_params = BoundObj
    /\ w_next_id = 1
    /\ w_enabled = [p \in WidgetParams |-> TRUE]
    /\ w_checked = [p \in ConstantCosts |-> TRUE]
    /\ w_run_name = "tracks"
    /\ w_layer_text \in {"None", "seg"}
    /\ w_load_text \in {"None", "run1"}
    /\ w_graph_layer \in BOOLEAN
    /\ w_running_label = FALSE
    /\ w_workers = <<>>
    /\ w_started = 0
    /\ w_layers = <<>>
    /\ w_loaded = FALSE
    /\ w_last = NoGesture

WidgetInit == \E d \in DefaultParamsSet : WidgetInitWith(d)

\* The controls and the bound object after a chain of slots ended in c.
SetControls(c) ==
    /\ w_spin' = c.spin
    /\ w_enabled' = c.enabled
    /\ w_checked' = c.checked
    /\ w_heap' = [w_heap EXCEPT ![BoundObj] = c.bound]

\* The user edits the spinbox of p to v; a disabled spinbox takes no input.
EditSpin(p, v) ==
    /\ w_enabled[p]
    /\ v # w_spin[p]
    /\ SetControls(setValue(Controls, p, v))
    /\ w_last' = [op |-> "edit", param |-> p, value |-> Clamp(v)]
    /\ UNCHANGED <<w_solver_params, w_next_id, w_loaded, w_run_name,
                   w_layer_text, w_load_text, w_graph_layer, runVars>>

\* The user clicks the EnableBox of constant cost p.
Toggle(p) ==
    /\ SetControls(setChecked(Controls, p, ~w_checked[p]))
    /\ w_last' = [op |-> "toggle", param |-> p, value |-> None]
    /\ UNCHANGED <<w_solver_params, w_next_id, w_loaded, w_run_name,
                   w_layer_text, w_load_text, w_graph_layer, runVars>>

\* MotileWidget._load_run with the run directory's params being loaded:
\* self.solver_params is rebound to the loaded object, then the update signal
\* runs every spinbox's update_value.
load_run(loaded) ==
    LET c == emit_update_signal(Controls, loaded)
        heap == [w_heap EXCEPT ![BoundObj] = c.bound]
        live == Live(w_next_id, w_workers)
    IN  /\ w_run_name' = w_load_text
        /\ w_solver_params' = w_next_id
        /\ w_next_id' = w_next_id + 1
        /\ w_heap' = [o \in live |->
                         IF o = w_next_id THEN loaded ELSE heap[o]]
        /\ w_spin' = c.spin
        /\ w_enabled' = c.enabled
        /\ w_checked' = c.checked
        /\ w_loaded' = TRUE

\* "Load Tracking Result" clicked.
LoadRun ==
    /\ w_next_id <= MaxLoads
    /\ IF w_load_text = "None"
       THEN UNCHANGED paramVars /\ UNCHANGED w_run_name
       ELSE \E loaded \in LoadedParamsSet : load_run(loaded)
    /\ w_last' = [op |-> IF w_load_text = "None" THEN "load_none" ELSE "load",
                  param |-> "none", value |-> None]
    /\ UNCHANGED <<w_layer_text, w_load_text, w_graph_layer, runVars>>

\* The object _generate_tracks passes to solve_with_motile.
SolveArg == w_solver_params

\* The object _save_run passes to Run.
SaveArg == w_solver_params

\* "Save Tracking Result" clicked: Run(run_name, solver_params).save.
SaveRun ==
    /\ w_last' = [op |-> "save", param |-> "none", value |-> SaveArg]
    /\ UNCHANGED <<paramVars, w_run_name, w_layer_text, w_load_text,
                   w_graph_layer, runVars>>


\* ---------------------------------------------------- MotileWidget: solving
\* Python's None where a layer is expected; a layer is <<its name>>.
NoLayer == <<>>

\* MotileWidget.get_labels_layer that looks the text up without testing for
\* the placeholder.
get_labels_layer_unguarded(text) == <<text>>

\* MotileWidget.get_labels_layer and RunEditor.get_labels_layer.
get_labels_layer(text) == IF text = "None" THEN NoLayer ELSE <<text>>

\* viewer.add_labels / viewer.add_tracks / viewer.add_layer.
add_layer(layers, kind, name) == Append(layers, [kind |-> kind, name |-> name])

\* MotileWidget._on_solve_complete's additions to the viewer for a solution
\* graph that is empty or not, with the run name read when the worker returns.
solve_complete_layers(layers, empty, run_name, graph_layer) ==
    LET l1 == add_layer(layers, "labels", run_name \o "_seg")
        l2 == IF empty THEN add_layer(l1, "tracks", run_name) ELSE l1
        l3 == add_layer(l2, "tracks", run_name)
    IN  IF graph_layer THEN add_layer(l3, "graph", "Graph " \o run_name) ELSE l3

RemoveAt(seq, i) == [j \in 1..(Len(seq) - 1) |-> IF j < i THEN seq[j] ELSE seq[j + 1]]

\* "Generate Tracks" clicked: MotileWidget._generate_tracks.
GenerateTracks ==
    /\ w_started < MaxSolves
    /\ IF get_labels_layer(w_layer_text) = NoLayer
       THEN UNCHANGED runVars
       ELSE /\ w_running_label' = TRUE
            /\ w_workers' = Append(w_workers,
                                [solver_params |-> SolveArg,
                                 segmentation |-> get_labels_layer(w_layer_text)])
            /\ w_started' = w_started + 1
            /\ UNCHANGED w_layers
    /\ w_last' = [op |-> "generate", param |-> "none", value |-> SolveArg]
    /\ UNCHANGED <<paramVars, w_run_name, w_layer_text, w_load_text,
                   w_graph_layer>>

\* Worker i returned: MotileWidget._on_solve_complete.  Whether the solution
\* graph is empty is the external solver's outcome.
SolveComplete(i, empty) ==
    /\ i \in DOMAIN w_workers
    /\ w_running_label' = FALSE
    /\ w_layers' = solve_complete_layers(w_layers, empty, w_run_name,
                                         w_graph_layer)
    /\ w_workers' = RemoveAt(w_workers, i)
    /\ w_heap' = [o \in Live(w_solver_params, RemoveAt(w_workers, i)) |-> w_heap[o]]
    /\ w_last' = [op |-> "complete", param |-> "none", value |-> None]
    /\ UNCHANGED <<w_solver_params, w_next_id, w_spin, w_enabled, w_checked,
                   w_loaded, w_run_name, w_layer_text, w_load_text,
                   w_graph_layer, w_started>>

\* The user types a run name into the line edit.
SetRunName(n) ==
    /\ n # w_run_name
    /\ w_run_name' = n
    /\ w_last' = [op |-> "name", param |-> "none", value |-> None]
    /\ UNCHANGED <<paramVars, w_layer_text, w_load_text, w_graph_layer, runVars>>


\* ------------------------------------------------------ SolverParamsEditor
\* The rows modelled: every optional row is an OptionalEditableParam and every
\* required row an EditableParam, built by the same loop body (_params_group),
\* so one row of each class stands for the rows of its class.
OptRows == {"appear_cost"}
ReqRows == {"max_edge_distance"}
EditorRows == ReqRows \cup OptRows

\* The order the rows were connected to new_params: hyperparams, then costs.
RowOrder == <<"max_edge_distance", "appear_cost">>

\* SolverParams objects as new_params can carry them.  Assignment to a field
\* is not validated, so a required field can hold None as well.
EditorParamsSet == [EditorRows -> OptWidgetVals]

\* SolverParams objects with every required field set.
ValidParamsSet == {q \in EditorParamsSet : \A r \in ReqRows : ~IsNone(q[r])}

\* The object SolverParamsEditor.__init__ stores in self.solver_params; every
\* row's valueChanged is bound to this object's __setattr__.
EditorObj == 1

\* An editor's controls with the fields of its solver_params object, as one
\* value the slots below transform.
EditorControls == [value |-> e_value, enabled |-> e_enabled,
                   checked |-> e_checked, stored |-> e_heap[EditorObj]]

\* partial(self.solver_params.__setattr__, param_name), slot of valueChanged.
SetStoredAttr(c, r, v) == [c EXCEPT !.stored[r] = v]

\* param_value.get_value().
get_value(c, r) == c.value[r]

\* param_value.update_value(v): the control takes the value and emits
\* valueChanged when it differs from the one it held.
param_update_value(c, r, v) ==
    IF c.value[r] = v THEN c ELSE SetStoredAttr([c EXCEPT !.value[r] = v], r, v)

\* param_value.setEnabled on an optional row.
param_setEnabled(c, r, b) == [c EXCEPT !.enabled[r] = b]

\* OptionalEditableParam.toggle_enable without the forced valueChanged.
toggle_enable_no_emit(c, r, checked) == param_setEnabled(c, r, checked)

\* OptionalEditableParam.toggle_enable, the slot of the checkbox's toggled.
toggle_enable(c, r, checked) ==
    SetStoredAttr(param_setEnabled(c, r, checked), r,
                  IF checked THEN get_value(c, r) ELSE None)

\* QCheckBox.setChecked: toggled is emitted only when the state changes.
label_setChecked(c, r, b) ==
    IF c.checked[r] = b
    THEN c
    ELSE toggle_enable([c EXCEPT !.checked[r] = b], r, b)

\* OptionalEditableParam.update_from_params that leaves the checkbox alone
\* when the value is set.
opt_update_from_params_no_check(c, r, params) ==
    IF IsNone(params[r])
    THEN param_setEnabled(label_setChecked(c, r, FALSE), r, FALSE)
    ELSE param_update_value(param_setEnabled(c, r, TRUE), r, params[r])

\* OptionalEditableParam.update_from_params.
opt_update_from_params(c, r, params) ==
    IF IsNone(params[r])
    THEN param_setEnabled(label_setChecked(c, r, FALSE), r, FALSE)
    ELSE param_update_value(
             param_setEnabled(label_setChecked(c, r, TRUE), r, TRUE),
             r, params[r])

\* EditableParam.update_from_params that hands None to the control instead
\* of raising.
req_update_from_params_no_raise(c, r, params) ==
    param_update_value(c, r, params[r])

\* EditableParam.update_from_params: on None it raises ValueError before it
\* touches the control.
req_update_from_params(c, r, params) ==
    IF IsNone(params[r]) THEN c ELSE param_update_value(c, r, params[r])

\* Whether some row's update_from_params raises ValueError for params.
RaisesValueError(params) == \E r \in ReqRows : IsNone(params[r])

\* param_cls of _params_group: the row's update_from_params.
update_from_params(c, r, params) ==
    IF r \in OptRows
    THEN opt_update_from_params(c, r, params)
    ELSE req_update_from_params(c, r, params)

\* new_params.emit(params): every row's update_from_params, in order.
RECURSIVE NewParamsFrom(_, _, _)
NewParamsFrom(c, i, params) ==
    IF i > Len(RowOrder)
    THEN c
    ELSE NewParamsFrom(update_from_params(c, RowOrder[i], params), i + 1, params)

emit_new_params(c, params) == NewParamsFrom(c, 1, params)

NoParams == [r \in EditorRows |-> None]

\* SolverParamsEditor.__init__: each row is initialised from SolverParams()
\* by update_from_params before its signals are connected.
\* d is SolverParams(), v0 the value a value control holds before any update.
EditorInitWith(d, v0) ==
    /\ e_heap = <<d>>
    /\ e_value = [r \in EditorRows |-> IF IsNone(d[r]) THEN v0 ELSE d[r]]
    /\ e_enabled = [r \in OptRows |-> ~IsNone(d[r])]
    /\ e_checked = [r \in OptRows |-> ~IsNone(d[r])]
    /\ e_run_name = "tracks"
    /\ e_layer_text \in {"None", "seg"}
    /\ e_runs = <<>>
    /\ e_last = [op |-> "init", params |-> NoParams, raised |-> FALSE]

EditorInit == \E d \in ValidParamsSet, v0 \in WidgetVals : EditorInitWith(d, v0)

SetEditorControls(c) ==
    /\ e_value' = c.value
    /\ e_enabled' = c.enabled
    /\ e_checked' = c.checked
    /\ e_heap' = [e_heap EXCEPT ![EditorObj] = c.stored]

\* The user edits the value control of row r; a disabled control takes no input.
EditValue(r, v) ==
    /\ r \in OptRows => e_enabled[r]
    /\ v # e_value[r]
    /\ SetEditorControls(param_update_value(EditorControls, r, v))
    /\ e_last' = [op |-> "edit", params |-> NoParams, raised |-> FALSE]
    /\ UNCHANGED <<e_run_name, e_layer_text, e_runs>>

\* The user clicks the checkbox of optional row r.
ToggleRow(r) ==
    /\ SetEditorControls(label_setChecked(EditorControls, r, ~e_checked[r]))
    /\ e_last' = [op |-> "toggle", params |-> NoParams, raised |-> FALSE]
    /\ UNCHANGED <<e_run_name, e_layer_text, e_runs>>

\* RunEditor.new_run(run) for a run called name with solver_params params:
\* the name goes to the line edit and new_params.emit(run.solver_params) runs.
NewRun(name, params) ==
    /\ e_run_name' = name
    /\ SetEditorControls(emit_new_params(EditorControls, params))
    /\ e_last' = [op |-> "new_params", params |-> params,
                  raised |-> RaisesValueError(params)]
    /\ UNCHANGED <<e_layer_text, e_runs>>

\* RunEditor.update_labels_layers(layers) with the names of the Labels layers
\* among them; the combo box shows its first item.
UpdateLabelsLayers(names) ==
    /\ e_layer_text' = IF names = <<>> THEN "None" ELSE names[1]
    /\ e_layer_text' # e_layer_text
    /\ e_last' = [op |-> "layers", params |-> NoParams, raised |-> FALSE]
    /\ UNCHANGED <<e_heap, e_value, e_enabled, e_checked, e_run_name, e_runs>>

\* RunEditor.get_run that hands the editor's own object to the run.
get_run_no_copy(heap, run_name, layer_text) ==
    IF get_labels_layer(layer_text) = NoLayer
    THEN [run |-> <<>>, heap |-> heap]
    ELSE [run |-> <<[run_name |-> run_name, solver_params |-> EditorObj,
                     created_with |-> heap[EditorObj]]>>,
          heap |-> heap]

\* RunEditor.get_run: None (<<>>) without a labels layer, else a MotileRun
\* <<run>> holding a copy of the editor's parameters.  created_with is
\* history: the parameter values at that moment.
get_run(heap, run_name, layer_text) ==
    IF get_labels_layer(layer_text) = NoLayer
    THEN [run |-> <<>>, heap |-> heap]
    ELSE [run |-> <<[run_name |-> run_name, solver_params |-> Len(heap) + 1,
                     created_with |-> heap[EditorObj]]>>,
          heap |-> Append(heap, heap[EditorObj])]

\* "Create Run" clicked: RunEditor.emit_run.
EmitRun ==
    LET got == get_run(e_heap, e_run_name, e_layer_text)
    IN  /\ got.run # <<>> => Len(e_runs) < MaxRuns
        /\ e_heap' = got.heap
        /\ e_runs' = e_runs \o got.run
        /\ e_last' = [op |-> IF got.run = <<>> THEN "emit_none" ELSE "emit_run",
                      params |-> NoParams, raised |-> FALSE]
        /\ UNCHANGED <<e_value, e_enabled, e_checked, e_run_name, e_layer_text>>

\* ------------------------------------------------------------ specifications
\* The solver's variables while the widgets are the program under study.
SolverIdle ==
    /\ s_params = [ max_edge_distance |-> 1, max_children |-> 1,
                    max_parents |-> 1, appear_cost |-> None,
                    disappear_cost |-> None, division_cost |-> None,
                    merge_cost |-> None, distance_weight |-> None,
                    distance_offset |-> None, iou_weight |-> None,
                    iou_offset |-> None ]
    /\ s_pc = "start"
    /\ s_cand_iou = FALSE
    /\ s_solver = NewSolver

\* MotileWidget as constructed with no labels layer, no saved run.
WidgetIdle ==
    /\ WidgetInitWith([p \in WidgetParams |-> 0])
    /\ w_layer_text = "None"
    /\ w_load_text = "None"
    /\ w_graph_layer = FALSE

\* The editors as constructed with every optional parameter None.
EditorIdle ==
    /\ EditorInitWith([r \in EditorRows |-> IF r \in OptRows THEN None ELSE 0], 0)
    /\ e_layer_text = "None"

\* solve and construct_solver over every SolverParams value.
SolverSpecInit == SolverInit /\ WidgetIdle /\ EditorIdle

SolverNext == Solve /\ UNCHANGED <<widgetVars, editorVars>>

SpecSolver == SolverSpecInit /\ [][SolverNext]_vars

\* MotileWidget's parameter controls: edits, toggles, loads and saves, in a
\* viewer with one labels layer.
Init ==
    /\ WidgetInit
    /\ w_layer_text = "seg"
    /\ w_graph_layer = FALSE
    /\ SolverIdle
    /\ EditorIdle

Next ==
    \/ \E p \in WidgetParams, v \in WidgetVals :
          EditSpin(p, v) /\ UNCHANGED <<solverVars, editorVars>>
    \/ \E p \in ConstantCosts : Toggle(p) /\ UNCHANGED <<solverVars, editorVars>>
    \/ LoadRun /\ UNCHANGED <<solverVars, editorVars>>
    \/ SaveRun /\ UNCHANGED <<solverVars, editorVars>>

Spec == Init /\ [][Next]_vars

\* Starting runs: MotileWidget's run buttons and workers and RunEditor's
\* "Create Run", each with or without a labels layer.
RunInit ==
    /\ WidgetInitWith([p \in WidgetParams |-> 0])
    /\ w_load_text = "None"
    /\ EditorInitWith([r \in EditorRows |-> 0], 0)
    /\ SolverIdle

RunNext ==
    \/ GenerateTracks /\ UNCHANGED <<solverVars, editorVars>>
    \/ \E i \in 1..MaxSolves, empty \in BOOLEAN :
          SolveComplete(i, empty) /\ UNCHANGED <<solverVars, editorVars>>
    \/ \E n \in RunNames : SetRunName(n) /\ UNCHANGED <<solverVars, editorVars>>
    \/ EmitRun /\ UNCHANGED <<solverVars, widgetVars>>
    \/ \E names \in {<<>>, <<"seg">>} :
          UpdateLabelsLayers(names) /\ UNCHANGED <<solverVars, widgetVars>>

SpecRun == RunInit /\ [][RunNext]_vars

\* SolverParamsEditor inside RunEditor: edits, checkbox toggles, new_params
\* updates and run creation.
EditorSpecInit ==
    /\ EditorInit
    /\ WidgetIdle
    /\ SolverIdle

EditorNext ==
    \/ \E r \in EditorRows, v \in WidgetVals :
          EditValue(r, v) /\ UNCHANGED <<solverVars, widgetVars>>
    \/ \E r \in OptRows : ToggleRow(r) /\ UNCHANGED <<solverVars, widgetVars>>
    \/ \E params \in EditorParamsSet :
          NewRun("run1", params) /\ UNCHANGED <<solverVars, widgetVars>>
    \/ EmitRun /\ UNCHANGED <<solverVars, widgetVars>>
    \/ \E names \in {<<>>, <<"seg">>} :
          UpdateLabelsLayers(names) /\ UNCHANGED <<solverVars, widgetVars>>

SpecEditor == EditorSpecInit /\ [][EditorNext]_vars

\* ------------------------------------------------------------ C1
\* The cost terms of a kind, and the constraints of a kind, a solver holds.
CostsOfKind(solver, k) ==
    {i \in DOMAIN solver.costs : solver.costs[i].kind = k}

ConstraintsOfKind(solver, k) ==
    {i \in DOMAIN solver.constraints : solver.constraints[i].kind = k}

\* A constant cost of kind k is in the solver iff v is not None, at most once,
\* with constant v.
ConstantCostMatches(solver, k, v) ==
    /\ Cardinality(CostsOfKind(solver, k)) = (IF IsNone(v) THEN 0 ELSE 1)
    /\ \A i \in CostsOfKind(solver, k) : solver.costs[i].constant = v

ConstraintMatches(solver, k, v) ==
    /\ Cardinality(ConstraintsOfKind(solver, k)) = 1
    /\ \A i \in ConstraintsOfKind(solver, k) : solver.constraints[i].value = v

\* C1: after solve, Appear / Disappear / Split / Merge are in the solver iff
\* appear_cost / disappear_cost / division_cost / merge_cost is not None, each
\* at most once and with the parameter's value, and MaxChildren and MaxParents
\* are there for every combination of the optional parameters.
C1_ConstantCostsIffSet ==
    s_pc = "done" =>
        /\ ConstantCostMatches(s_solver, "Appear", s_params.appear_cost)
        /\ ConstantCostMatches(s_solver, "Disappear", s_params.disappear_cost)
        /\ ConstantCostMatches(s_solver, "Split", s_params.division_cost)
        /\ ConstantCostMatches(s_solver, "Merge", s_params.merge_cost)
        /\ ConstraintMatches(s_solver, "MaxChildren", s_params.max_children)
        /\ ConstraintMatches(s_solver, "MaxParents", s_params.max_parents)

\* A solve whose parameters set a zero appear cost and a merge cost and leave
\* disappear_cost and division_cost None.
C1_Witness ==
    /\ s_pc = "done"
    /\ s_params.appear_cost = 0
    /\ s_params.merge_cost = MaxCost
    /\ IsNone(s_params.disappear_cost)
    /\ IsNone(s_params.division_cost)
    /\ Len(s_solver.costs) > 0

\* ------------------------------------------------------------ C8
\* The EdgeSelection costs named n that a solver holds.
EdgeCostsNamed(solver, n) ==
    {i \in CostsOfKind(solver, "EdgeSelection") : solver.costs[i].name = n}

\* C8: solve asks get_candidate_graph for iou iff iou_weight is not None, the
\* "iou" EdgeSelection cost is added iff iou_weight is not None (so only on a
\* graph built with iou attributes), and the "distance" EdgeSelection cost is
\* added iff distance_weight is not None, whatever distance_offset is.
C8_EdgeCostsIffWeight ==
    s_pc = "done" =>
        /\ s_cand_iou = ~IsNone(s_params.iou_weight)
        /\ (EdgeCostsNamed(s_solver, "iou") # {}) = ~IsNone(s_params.iou_weight)
        /\ (EdgeCostsNamed(s_solver, "iou") # {}) => s_cand_iou
        /\ (EdgeCostsNamed(s_solver, "distance") # {})
               = ~IsNone(s_params.distance_weight)
        /\ \A i \in EdgeCostsNamed(s_solver, "iou") :
               /\ s_solver.costs[i].attribute = "iou"
               /\ s_solver.costs[i].weight = s_params.iou_weight
        /\ \A i \in EdgeCostsNamed(s_solver, "distance") :
               /\ s_solver.costs[i].attribute = "distance"
               /\ s_solver.costs[i].weight = s_params.distance_weight

\* A solve with a distance weight but no distance offset, and an iou weight.
C8_Witness ==
    /\ s_pc = "done"
    /\ ~IsNone(s_params.distance_weight)
    /\ IsNone(s_params.distance_offset)
    /\ ~IsNone(s_params.iou_weight)
    /\ EdgeCostsNamed(s_solver, "distance") # {}


\* ------------------------------------------------------------ C2
\* C2: after any edits, toggles and loads, once the user has edited an enabled
\* spinbox to v the parameter equals v in the widget's current solver_params,
\* the object the next "Generate Tracks" and "Save Tracking Result" pass on.
C2_EditReachesCurrentParams ==
    w_last.op = "edit" =>
        /\ w_heap[w_solver_params][w_last.param] = w_last.value
        /\ w_heap[SolveArg][w_last.param] = w_last.value
        /\ w_heap[SaveArg][w_last.param] = w_last.value

\* ------------------------------------------------------------ C3
\* C3: right after a run was loaded, every constant cost's checkbox is checked
\* and its spinbox enabled iff the loaded value is not None, and the spinbox
\* shows a loaded value that is not None.
C3_ControlsReflectLoad ==
    w_last.op = "load" =>
        \A p \in ConstantCosts :
            LET loaded == w_heap[w_solver_params][p]
            IN  /\ w_checked[p] = ~IsNone(loaded)
                /\ w_enabled[p] = ~IsNone(loaded)
                /\ ~IsNone(loaded) => w_spin[p] = loaded

\* ------------------------------------------------------------ C9
\* C9: while no run has been loaded, for every constant cost the spinbox is
\* enabled iff the checkbox is checked, the bound parameter is None iff the
\* checkbox is unchecked, and it equals the spinbox value when checked.
C9_ToggleBindsParam ==
    ~w_loaded =>
        \A p \in ConstantCosts :
            /\ w_enabled[p] = w_checked[p]
            /\ IsNone(w_heap[BoundObj][p]) = ~w_checked[p]
            /\ w_checked[p] => w_heap[BoundObj][p] = w_spin[p]

\* A checkbox was just re-checked while the other one is unchecked.
C9_Witness ==
    /\ ~w_loaded
    /\ w_last.op = "toggle"
    /\ w_checked[w_last.param]
    /\ w_heap[BoundObj][w_last.param] = w_spin[w_last.param]
    /\ \E q \in ConstantCosts :
          /\ ~w_checked[q]
          /\ ~w_enabled[q]
          /\ IsNone(w_heap[BoundObj][q])

\* ------------------------------------------------------------ C10
\* C10: with the placeholder "None" selected MotileWidget has started no
\* worker, shows no running label and has added no layer, and a "Create Run"
\* click in RunEditor with "None" selected emitted no run.
C10_NoLayerNoRun ==
    /\ w_layer_text = "None" =>
          /\ w_workers = <<>>
          /\ w_started = 0
          /\ ~w_running_label
          /\ w_layers = <<>>
    /\ (e_layer_text = "None" /\ e_last.op \in {"emit_run", "emit_none"}) =>
          e_last.op = "emit_none"

\* "Generate Tracks" and "Create Run" were both clicked with "None" selected.
C10_Witness ==
    /\ w_layer_text = "None"
    /\ w_last.op = "generate"
    /\ e_layer_text = "None"
    /\ e_last.op = "emit_none"

\* ------------------------------------------------------------ C4
\* C4: for every optional row the stored parameter is None iff the checkbox is
\* unchecked, the value control is enabled iff it is checked, and a checked
\* row's stored parameter is the value the control holds.
C4_StoredNoneIffUnchecked ==
    \A r \in OptRows :
        /\ IsNone(e_heap[EditorObj][r]) = ~e_checked[r]
        /\ e_enabled[r] = e_checked[r]
        /\ e_checked[r] => e_heap[EditorObj][r] = e_value[r]

\* A checkbox was just unchecked on a row that holds a value.
C4_Witness ==
    /\ e_last.op = "toggle"
    /\ \E r \in OptRows :
          /\ ~e_checked[r]
          /\ ~e_enabled[r]
          /\ IsNone(e_heap[EditorObj][r])
          /\ e_value[r] = MaxVal

\* ------------------------------------------------------------ C5
\* C5 as stated: after new_params was emitted with p, every row's stored value
\* equals its value in p, None included, and every optional row's checkbox is
\* checked iff its value in p is not None.
C5_AllRowsFollowNewParams ==
    e_last.op = "new_params" =>
        /\ \A r \in EditorRows : e_heap[EditorObj][r] = e_last.params[r]
        /\ \A r \in OptRows : e_checked[r] = ~IsNone(e_last.params[r])

\* C5 as amended: after new_params was emitted with p, every optional row's
\* stored value equals its value in p, None included, with its checkbox
\* checked iff that value is not None; every required row whose value in p is
\* not None has that stored value; ValueError is raised iff p holds None for
\* a required row.
C5_RowsFollowNewParams ==
    e_last.op = "new_params" =>
        /\ \A r \in OptRows :
              /\ e_heap[EditorObj][r] = e_last.params[r]
              /\ e_checked[r] = ~IsNone(e_last.params[r])
        /\ \A r \in ReqRows :
              ~IsNone(e_last.params[r]) =>
                  e_heap[EditorObj][r] = e_last.params[r]
        /\ e_last.raised = (\E r \in ReqRows : IsNone(e_last.params[r]))

\* new_params was just emitted with None for the optional row and a value for
\* the required one, after a run had been created from other parameters.
C5_Witness ==
    /\ e_last.op = "new_params"
    /\ \A r \in OptRows : IsNone(e_last.params[r]) /\ ~e_checked[r]
    /\ \A r \in ReqRows : e_last.params[r] = MaxVal
    /\ \E i \in DOMAIN e_runs :
          \A r \in OptRows : ~IsNone(e_runs[i].created_with[r])

\* ------------------------------------------------------------ C6
\* C6: the solver_params of every run RunEditor created still equal the
\* editor's parameters at the moment of creation.
C6_RunKeepsSnapshot ==
    \A i \in DOMAIN e_runs :
        e_heap[e_runs[i].solver_params] = e_runs[i].created_with

\* A run was created and every parameter of the editor was changed afterwards.
C6_Witness ==
    \E i \in DOMAIN e_runs :
        \A r \in EditorRows : e_heap[EditorObj][r] # e_runs[i].created_with[r]

\* ------------------------------------------------------------ C11
\* C11: in every step that emits new_params with p, a required row whose value
\* in p is None raises ValueError and keeps the value it displayed, and a
\* required row whose value in p is not None displays that value afterwards.
C11_RequiredRowUpdate ==
    [][e_last'.op = "new_params" /\ e_last' # e_last =>
          \A r \in ReqRows :
              IF IsNone(e_last'.params[r])
              THEN e_last'.raised /\ e_value'[r] = e_value[r]
              ELSE e_value'[r] = e_last'.params[r]]_vars

\* new_params was just emitted with None for a required row that displays a
\* value typed in earlier.
C11_Witness ==
    /\ e_last.op = "new_params"
    /\ e_last.raised
    /\ \E r \in ReqRows :
          /\ IsNone(e_last.params[r])
          /\ e_value[r] = MaxVal
          /\ e_heap[EditorObj][r] = MaxVal

\* ------------------------------------------------------------ C12
\* The solves started that have not completed.
SolvesInProgress == Len(w_workers)

\* C12: the "Solver is running" label is visible iff at least one started
\* solve has not completed yet.
C12_LabelIffSolving ==
    w_running_label = (SolvesInProgress > 0)

\* ------------------------------------------------------------ C13
LayersOfKind(kind) == {i \in DOMAIN w_layers : w_layers[i].kind = kind}

SolvesCompleted == w_started - Len(w_workers)

\* C13: the viewer holds exactly one labels layer, named <run name>_seg, and
\* exactly one tracks layer, named <run name>, per completed solve.
C13_OneLabelsOneTracksPerSolve ==
    /\ Cardinality(LayersOfKind("labels")) = SolvesCompleted
    /\ Cardinality(LayersOfKind("tracks")) = SolvesCompleted
    /\ \A i \in LayersOfKind("labels") :
          \E n \in RunNames : w_layers[i].name = n \o "_seg"
    /\ \A i \in LayersOfKind("tracks") : w_layers[i].name \in RunNames

====
